---------------------------- MODULE Spec2Model ----------------------------
(***************************************************************************)
(* fuzzion 2.0 (src/fuzzion.cpp): finds the reads of a BAM file that       *)
(* contain two target sequences, or contain one target sequence and not a  *)
(* second one, each matched with at most maxsub substitutions.             *)
(*                                                                         *)
(* A std::string is a sequence of one-character strings; indices of the    *)
(* source are 0-based and are kept 0-based here (CharAt, matchIndex,       *)
(* matchStart), a TLA+ sequence being indexed from 1.                      *)
(***************************************************************************)
EXTENDS Integers, Sequences, FiniteSets, TLC

VARIABLES
    pc,          \* position of main(): "open", "readTargets", "scan" (the while of
                 \* readBamFile), "pairs" (its for loop), "done", "error" (return 1),
                 \* "abort" (an exception main() does not catch); "search" and
                 \* "mirror" when a single function is run on its own

    maxsub,      \* int maxsub: maximum substitutions allowed (set by parseArgs)
    input,       \* stdin: the target-definition lines
    targetPair,  \* std::vector<TargetPair *> targetPair
    bam,         \* the alignments the BamReader has not returned yet
    alignment,   \* BamTools::BamAlignment alignment of readBamFile()
    lineno,      \* the number of lines std::getline has returned
    idx,         \* the loop index i of readBamFile()'s for loop
    out,         \* the lines written to stdout
    last,        \* the locals of the last TargetPair::findMatch() call
    target,      \* the Target a directional search is run on
    srch         \* the locals of a running findLeftmost()/findRightmost()

vars == <<pc, maxsub, input, lineno, targetPair, bam, alignment, idx, out, last, target, srch>>

-----------------------------------------------------------------------------
(* Program constants *)

MIN_TARGET_LENGTH == 8

-----------------------------------------------------------------------------
(* Bounds of the model *)

\* largest maxsub explored
MaxSub == 1
\* most blocks a read of the pair scan is made of
MaxBlocks == 3
\* most blocks a read of the NEG scan is made of
MaxNegBlocks == 5
\* most blocks a read of the directional searches is made of
MaxSearchBlocks == 3
\* largest reserve (rightpad / leftpad) of a directional search
MaxPad == 2
\* most target-definition lines on stdin
MaxLines == 2
\* most alignments in the BAM file of a whole run
MaxReads == 1
\* most candidates of a target string that is mirrored
MaxCands == 2
\* most times createReverseComplement() is applied in a row
MaxMirrors == 2

-----------------------------------------------------------------------------
(* Characters and strings *)

\* Body with v bound to its argument: a local of the source that is used more
\* than once is bound this way, so it is computed once
With(v, Body(_)) == Body(v)

TAB == "\t"

\* std::toupper on the characters the model uses
ToUpper(ch) ==
    CASE ch = "a" -> "A" [] ch = "c" -> "C" [] ch = "g" -> "G"
      [] ch = "t" -> "T" [] ch = "n" -> "N" [] ch = "x" -> "X"
      [] OTHER -> ch

\* std::tolower on the characters the model uses
ToLower(ch) ==
    CASE ch = "A" -> "a" [] ch = "C" -> "c" [] ch = "G" -> "g"
      [] ch = "T" -> "t" [] ch = "N" -> "n" [] ch = "X" -> "x"
      [] OTHER -> ch

\* toupperSequence(): appends std::toupper of every character in turn
RECURSIVE toupperLoop(_, _, _)
toupperLoop(sequence, i, upperSeq) ==
    IF i >= Len(sequence) THEN upperSeq
    ELSE toupperLoop(sequence, i + 1, Append(upperSeq, ToUpper(sequence[i + 1])))

toupperSequence(sequence) == toupperLoop(sequence, 0, <<>>)

\* std::string::substr(pos, n) for pos <= size(): at most n characters from pos
Substr(s, pos, n) ==
    LET m == IF n < Len(s) - pos THEN n ELSE Len(s) - pos
    IN  SubSeq(s, pos + 1, pos + m)

\* getDelimitedStrings(): the do-while loop, one delimited value per pass
RECURSIVE getDelimitedLoop(_, _, _, _, _)
getDelimitedLoop(s, delimiter, i, value, v) ==
    IF i < Len(s) /\ s[i + 1] # delimiter
    THEN getDelimitedLoop(s, delimiter, i + 1, Append(value, s[i + 1]), v)
    ELSE IF i < Len(s)
         THEN getDelimitedLoop(s, delimiter, i + 1, <<>>, Append(v, value))
         ELSE Append(v, value)

getDelimitedStrings(s, delimiter) == getDelimitedLoop(s, delimiter, 0, <<>>, <<>>)

isACGT_AllowN(ch) ==
    LET up == ToUpper(ch)
    IN  up = "A" \/ up = "C" \/ up = "G" \/ up = "T" \/ up = "N"

isACGT(ch) ==
    LET up == ToUpper(ch)
    IN  up = "A" \/ up = "C" \/ up = "G" \/ up = "T"

isAllACGT(sequence) == \A i \in 1..Len(sequence) : isACGT(sequence[i])

-----------------------------------------------------------------------------
(* Target::Target *)

\* the value of a Target whose constructor threw
NoTarget == [error |-> "none", want |-> TRUE, minseqlen |-> 0, maxseqlen |-> 0,
             seqcount |-> 0, seqlen |-> <<>>, seq |-> <<>>]

\* the loop that derives minseqlen and maxseqlen from t[1..]
RECURSIVE minmaxLoop(_, _, _, _)
minmaxLoop(t, i, mn, mx) ==
    IF i >= Len(t) THEN <<mn, mx>>
    ELSE IF Len(t[i + 1]) < mn THEN minmaxLoop(t, i + 1, Len(t[i + 1]), mx)
    ELSE IF Len(t[i + 1]) > mx THEN minmaxLoop(t, i + 1, mn, Len(t[i + 1]))
    ELSE minmaxLoop(t, i + 1, mn, mx)

\* the rest of Target::Target() once want is set and the string is split into t
TargetOf(want, t) ==
    With(minmaxLoop(t, 1, Len(t[1]), Len(t[1])), LAMBDA mm :
        IF mm[1] < MIN_TARGET_LENGTH
        THEN [NoTarget EXCEPT !.error = "invalid sequence length"]
        ELSE IF \E i \in 1..Len(t) : ~isAllACGT(t[i])
        THEN [NoTarget EXCEPT !.error = "invalid character"]
        ELSE [error |-> "", want |-> want, minseqlen |-> mm[1], maxseqlen |-> mm[2],
              seqcount |-> Len(t), seqlen |-> [i \in 1..Len(t) |-> Len(t[i])],
              seq |-> t])

\* Target::Target(targetString): error is "" unless the constructor throws
TargetCtor(targetString) ==
    With(toupperSequence(targetString), LAMBDA s :
        IF Len(s) > 0 /\ s[1] = "-"
        THEN TargetOf(FALSE, getDelimitedStrings(Substr(s, 1, Len(s)), "|"))
        ELSE TargetOf(TRUE, getDelimitedStrings(s, "|")))

-----------------------------------------------------------------------------
(* Reverse complement *)

RECURSIVE reverseLoop(_, _, _)
reverseLoop(sequence, i, reverseSeq) ==
    IF i < 0 THEN reverseSeq
    ELSE reverseLoop(sequence, i - 1, Append(reverseSeq, sequence[i + 1]))

reverseSequence(sequence) == reverseLoop(sequence, Len(sequence) - 1, <<>>)

invertChar_NoG(ch) ==
    CASE ch = "A" -> "T" [] ch = "a" -> "t"
      [] ch = "T" -> "A" [] ch = "t" -> "a"
      [] ch = "C" -> "G" [] ch = "c" -> "g"
      [] OTHER -> ch

\* the switch of invertSequence()
invertChar(ch) ==
    CASE ch = "A" -> "T" [] ch = "a" -> "t"
      [] ch = "T" -> "A" [] ch = "t" -> "a"
      [] ch = "C" -> "G" [] ch = "c" -> "g"
      [] ch = "G" -> "C" [] ch = "g" -> "c"
      [] OTHER -> ch

RECURSIVE invertLoop(_, _, _)
invertLoop(sequence, i, inverseSeq) ==
    IF i >= Len(sequence) THEN inverseSeq
    ELSE invertLoop(sequence, i + 1, Append(inverseSeq, invertChar(sequence[i + 1])))

invertSequence(sequence) == invertLoop(sequence, 0, <<>>)

RECURSIVE reverseComplementLoop(_, _, _)
reverseComplementLoop(t, i, revcomp) ==
    IF i >= t.seqcount THEN revcomp
    ELSE reverseComplementLoop(t, i + 1,
             revcomp \o (IF i > 0 THEN <<"|">> ELSE <<>>)
                     \o invertSequence(reverseSequence(t.seq[i + 1])))

\* Target::reverseComplement(): the target string of the reverse complement
reverseComplement(t) ==
    reverseComplementLoop(t, 0, IF t.want THEN <<>> ELSE <<"-">>)

-----------------------------------------------------------------------------
(* Bounded-substitution comparison *)

\* readseq[k] of the C string: the terminating NUL at k = length.  No reachable
\* call reads past it; "OOB" stands for such a read.
CharAt(readseq, k) ==
    IF 0 <= k /\ k < Len(readseq) THEN readseq[k + 1]
    ELSE IF k = Len(readseq) THEN "NUL" ELSE "OOB"

RECURSIVE isMatchLoop(_, _, _, _, _, _)
isMatchLoop(readseq, start, tseq, targetlen, i, numsubs) ==
    IF i >= targetlen THEN TRUE
    ELSE IF CharAt(readseq, start + i) # tseq[i + 1]
         THEN IF numsubs + 1 > maxsub THEN FALSE
              ELSE isMatchLoop(readseq, start, tseq, targetlen, i + 1, numsubs + 1)
         ELSE isMatchLoop(readseq, start, tseq, targetlen, i + 1, numsubs)

\* isMatch(&readseq[start], target, targetlen)
isMatch(readseq, start, tseq, targetlen) ==
    isMatchLoop(readseq, start, tseq, targetlen, 0, 0)

\* the comparisons among starts a..b whose window leaves [0, readseqlen)
BadWindows(a, b, len, readseqlen) ==
    Cardinality({s \in a..b : s < 0 \/ s + len > readseqlen})

-----------------------------------------------------------------------------
(* Target::findLeftmost *)

LeftLastStart_OffByOne(lastMatchEnd, len) == lastMatchEnd - len + 1

\* int lastStart = lastMatchEnd - seqlen[i]
LeftLastStart(lastMatchEnd, len) == lastMatchEnd - len

LeftNextEnd_Inclusive(start, len) == start + len

\* lastMatchEnd = start + seqlen[i] - 1
LeftNextEnd(start, len) == start + len - 1

\* for (start = 0; start <= lastStart; start++) if (isMatch(...)) break;
\* yields the start the loop broke at, or -1
RECURSIVE LeftScan(_, _, _, _, _)
LeftScan(readseq, tseq, len, start, lastStart) ==
    IF start > lastStart THEN -1
    ELSE IF isMatch(readseq, start, tseq, len) THEN start
    ELSE LeftScan(readseq, tseq, len, start + 1, lastStart)

\* the state of a search before its first candidate
SearchBegin(bound, matchStart0) ==
    [matchIndex |-> -1, matchStart |-> matchStart0, bound |-> bound, n |-> 0, bad |-> 0]

\* one pass of findLeftmost()'s loop over the candidates (candidate i);
\* st.bound is lastMatchEnd, n and bad count the comparisons made
LeftIter(t, readseq, readseqlen, i, st) ==
    With(LeftScan(readseq, t.seq[i + 1], t.seqlen[i + 1], 0,
                  LeftLastStart(st.bound, t.seqlen[i + 1])), LAMBDA s :
    With(IF s >= 0 THEN s ELSE LeftLastStart(st.bound, t.seqlen[i + 1]), LAMBDA e :
        [matchIndex |-> IF s >= 0 THEN i ELSE st.matchIndex,
         matchStart |-> IF s >= 0 THEN s ELSE st.matchStart,
         bound      |-> IF s >= 0 THEN LeftNextEnd(s, t.seqlen[i + 1]) ELSE st.bound,
         n          |-> st.n + (IF e >= 0 THEN e + 1 ELSE 0),
         bad        |-> st.bad + BadWindows(0, e, t.seqlen[i + 1], readseqlen)]))

RECURSIVE findLeftmostLoop(_, _, _, _, _)
findLeftmostLoop(t, readseq, readseqlen, i, st) ==
    IF i >= t.seqcount THEN st
    ELSE findLeftmostLoop(t, readseq, readseqlen, i + 1,
                          LeftIter(t, readseq, readseqlen, i, st))

\* Target::findLeftmost(): matchStart0 is what the caller's matchStart held
findLeftmost(t, readseq, readseqlen, rightpad, matchStart0) ==
    With(findLeftmostLoop(t, readseq, readseqlen, 0,
                          SearchBegin(readseqlen - rightpad, matchStart0)), LAMBDA st :
        [found |-> st.matchIndex >= 0, matchIndex |-> st.matchIndex,
         matchStart |-> st.matchStart, n |-> st.n, bad |-> st.bad])

-----------------------------------------------------------------------------
(* Target::findRightmost *)

RightFirstStart_OffByOne(readseqlen, len) == readseqlen - len + 1

\* int firstStart = readseqlen - seqlen[i]
RightFirstStart(readseqlen, len) == readseqlen - len

RightNextStart_Same(start) == start

\* lastMatchStart = start + 1
RightNextStart(start) == start + 1

\* for (start = firstStart; start >= lastMatchStart; start--) if (isMatch(...)) break;
RECURSIVE RightScan(_, _, _, _, _)
RightScan(readseq, tseq, len, start, lastMatchStart) ==
    IF start < lastMatchStart THEN -1
    ELSE IF isMatch(readseq, start, tseq, len) THEN start
    ELSE RightScan(readseq, tseq, len, start - 1, lastMatchStart)

\* one pass of findRightmost()'s loop over the candidates; st.bound is lastMatchStart
RightIter(t, readseq, readseqlen, i, st) ==
    With(RightFirstStart(readseqlen, t.seqlen[i + 1]), LAMBDA firstStart :
    With(RightScan(readseq, t.seq[i + 1], t.seqlen[i + 1], firstStart, st.bound), LAMBDA s :
    With(IF s >= 0 THEN s ELSE st.bound, LAMBDA e :
        [matchIndex |-> IF s >= 0 THEN i ELSE st.matchIndex,
         matchStart |-> IF s >= 0 THEN s ELSE st.matchStart,
         bound      |-> IF s >= 0 THEN RightNextStart(s) ELSE st.bound,
         n          |-> st.n + (IF firstStart >= e THEN firstStart - e + 1 ELSE 0),
         bad        |-> st.bad + BadWindows(e, firstStart, t.seqlen[i + 1], readseqlen)])))

RECURSIVE findRightmostLoop(_, _, _, _, _)
findRightmostLoop(t, readseq, readseqlen, i, st) ==
    IF i >= t.seqcount THEN st
    ELSE findRightmostLoop(t, readseq, readseqlen, i + 1,
                           RightIter(t, readseq, readseqlen, i, st))

\* Target::findRightmost()
findRightmost(t, readseq, readseqlen, leftpad, matchStart0) ==
    With(findRightmostLoop(t, readseq, readseqlen, 0,
                           SearchBegin(leftpad, matchStart0)), LAMBDA st :
        [found |-> st.matchIndex >= 0, matchIndex |-> st.matchIndex,
         matchStart |-> st.matchStart, n |-> st.n, bad |-> st.bad])

-----------------------------------------------------------------------------
(* TargetPair *)

\* the value of a TargetPair whose constructor threw
NoPair(message, inLabel) ==
    [error |-> message, label |-> inLabel, left |-> NoTarget, right |-> NoTarget]

\* TargetPair::TargetPair(inLabel, leftTargetString, rightTargetString):
\* the members are initialized in the order label, left, right, then the body runs
TargetPairCtor(inLabel, leftTargetString, rightTargetString) ==
    With(TargetCtor(leftTargetString), LAMBDA l :
    With(TargetCtor(rightTargetString), LAMBDA r :
        IF l.error # "" THEN NoPair(l.error, inLabel)
        ELSE IF r.error # "" THEN NoPair(r.error, inLabel)
        ELSE IF Len(inLabel) = 0 THEN NoPair("missing label", inLabel)
        ELSE IF ~l.want /\ ~r.want THEN NoPair("double negative", inLabel)
        ELSE [error |-> "", label |-> inLabel, left |-> l, right |-> r]))

\* TargetPair::createReverseComplement()
createReverseComplement(tp) ==
    TargetPairCtor(tp.label, reverseComplement(tp.right), reverseComplement(tp.left))

\* what a search that was not called leaves in the record of calls
NoCall == [called |-> FALSE, pad |-> 0, found |-> FALSE, matchIndex |-> -1,
           matchStart |-> 0, n |-> 0, bad |-> 0]

CallOf(r, pad) == [called |-> TRUE, pad |-> pad, found |-> r.found,
                   matchIndex |-> r.matchIndex, matchStart |-> r.matchStart,
                   n |-> r.n, bad |-> r.bad]

\* the reserve findMatch() leaves to findLeftmost() when the left side is wanted
LeftWantedPad(tp) == IF tp.right.want THEN tp.right.minseqlen ELSE tp.right.maxseqlen

AfterLeftPad_Start(tp, l) == l.matchStart

\* the leftpad of the findRightmost() call that follows a left match
AfterLeftPad(tp, l) == l.matchStart + tp.left.seqlen[l.matchIndex + 1]

LeftAbsentPad_Plus1(tp) == tp.left.maxseqlen + 1

\* the leftpad of findRightmost() when the left side must be absent
LeftAbsentPad(tp) == tp.left.maxseqlen

BeforeRightPad_OffByOne(readseqlen, r) == readseqlen - r.matchStart + 1

\* the rightpad of the findLeftmost() call that follows a right match
BeforeRightPad(readseqlen, r) == readseqlen - r.matchStart

\* findMatch()'s condition when left->want: l is what findLeftmost() returned
leftWantedCondition(tp, readString, junk, l) ==
    IF ~l.found
    THEN [matched |-> FALSE, leftIndex |-> l.matchIndex, leftStart |-> l.matchStart,
          rightIndex |-> junk, rightStart |-> junk,
          leftCall |-> CallOf(l, LeftWantedPad(tp)), rightCall |-> NoCall]
    ELSE With(findRightmost(tp.right, readString, Len(readString), AfterLeftPad(tp, l), junk),
              LAMBDA r :
             [matched |-> (r.found = tp.right.want),
              leftIndex |-> l.matchIndex, leftStart |-> l.matchStart,
              rightIndex |-> r.matchIndex, rightStart |-> r.matchStart,
              leftCall |-> CallOf(l, LeftWantedPad(tp)),
              rightCall |-> CallOf(r, AfterLeftPad(tp, l))])

\* findMatch()'s condition when !left->want: r is what findRightmost() returned
leftAbsentCondition(tp, readString, junk, r) ==
    IF ~r.found
    THEN [matched |-> FALSE, leftIndex |-> junk, leftStart |-> junk,
          rightIndex |-> r.matchIndex, rightStart |-> r.matchStart,
          leftCall |-> NoCall, rightCall |-> CallOf(r, LeftAbsentPad(tp))]
    ELSE With(findLeftmost(tp.left, readString, Len(readString),
                           BeforeRightPad(Len(readString), r), junk),
              LAMBDA l :
             [matched |-> ~l.found,
              leftIndex |-> l.matchIndex, leftStart |-> l.matchStart,
              rightIndex |-> r.matchIndex, rightStart |-> r.matchStart,
              leftCall |-> CallOf(l, BeforeRightPad(Len(readString), r)),
              rightCall |-> CallOf(r, LeftAbsentPad(tp))])

\* the condition of TargetPair::findMatch() with the values it leaves in
\* leftIndex, leftStart, rightIndex, rightStart; junk is what the four
\* uninitialized ints hold on entry
findMatchCondition(tp, readString, junk) ==
    IF tp.left.want
    THEN leftWantedCondition(tp, readString, junk,
             findLeftmost(tp.left, readString, Len(readString), LeftWantedPad(tp), junk))
    ELSE leftAbsentCondition(tp, readString, junk,
             findRightmost(tp.right, readString, Len(readString), LeftAbsentPad(tp), junk))

-----------------------------------------------------------------------------
(* Reporting *)

RECURSIVE highlightLoop(_, _, _, _)
highlightLoop(readString, tseq, i, acc) ==
    IF i >= Len(readString) THEN acc
    ELSE highlightLoop(readString, tseq, i + 1,
             Append(acc, IF readString[i + 1] = tseq[i + 1] THEN readString[i + 1]
                         ELSE ToLower(readString[i + 1])))

\* highlight(readString, target): what it writes to stdout
highlight(readString, tseq) == <<"[">> \o highlightLoop(readString, tseq, 0, <<>>) \o <<"]">>

\* readString.substr(pos, n) throws std::out_of_range when pos > size()
\* (a negative int converts to a huge size_t)
SubstrThrows(s, pos) == pos < 0 \/ pos > Len(s)

writeLeft_ToEnd(tp, readString, leftIndex, leftStart, rightStart) ==
    LET leftlen == tp.left.seqlen[leftIndex + 1]
        nextlen == Len(readString) - leftStart - leftlen
    IN  highlight(Substr(readString, leftStart, leftlen), tp.left.seq[leftIndex + 1])
        \o (IF nextlen > 0 THEN Substr(readString, leftStart + leftlen, nextlen) ELSE <<>>)

\* the part of writeMatch() guarded by if (left->want)
writeLeft(tp, readString, leftIndex, leftStart, rightStart) ==
    LET leftlen == tp.left.seqlen[leftIndex + 1]
        nextlen == (IF tp.right.want THEN rightStart ELSE Len(readString)) - leftStart - leftlen
    IN  highlight(Substr(readString, leftStart, leftlen), tp.left.seq[leftIndex + 1])
        \o (IF nextlen > 0 THEN Substr(readString, leftStart + leftlen, nextlen) ELSE <<>>)

\* the part of writeMatch() guarded by if (right->want)
writeRight(tp, readString, rightIndex, rightStart) ==
    LET rightlen == tp.right.seqlen[rightIndex + 1]
        nextlen  == Len(readString) - rightStart - rightlen
    IN  highlight(Substr(readString, rightStart, rightlen), tp.right.seq[rightIndex + 1])
        \o (IF nextlen > 0 THEN Substr(readString, rightStart + rightlen, nextlen) ELSE <<>>)

\* whether some substr() call of writeMatch() throws
writeMatchThrows(tp, readString, leftIndex, leftStart, rightIndex, rightStart) ==
    \/ tp.left.want /\ (leftIndex < 0 \/ leftIndex >= tp.left.seqcount
                        \/ SubstrThrows(readString, leftStart))
    \/ tp.right.want /\ (rightIndex < 0 \/ rightIndex >= tp.right.seqcount
                         \/ SubstrThrows(readString, rightStart))

\* TargetPair::writeMatch(): the line written to stdout
writeMatch(tp, readName, readString, leftIndex, leftStart, rightIndex, rightStart) ==
    LET initialBases == IF tp.left.want THEN leftStart ELSE rightStart
    IN  [name  |-> readName,
         seq   |-> (IF initialBases > 0 THEN Substr(readString, 0, initialBases) ELSE <<>>)
                   \o (IF tp.left.want
                       THEN writeLeft(tp, readString, leftIndex, leftStart, rightStart)
                       ELSE <<>>)
                   \o (IF tp.right.want
                       THEN writeRight(tp, readString, rightIndex, rightStart)
                       ELSE <<>>),
         label |-> tp.label]

-----------------------------------------------------------------------------
(* Inputs *)

AAAACCCC == <<"A", "A", "A", "A", "C", "C", "C", "C">>
GGGGTTTT == <<"G", "G", "G", "G", "T", "T", "T", "T">>
CCCCGGGG == <<"C", "C", "C", "C", "G", "G", "G", "G">>
CCCCAAAAG == <<"C", "C", "C", "C", "A", "A", "A", "A", "G">>
TTTTGGGG == <<"T", "T", "T", "T", "G", "G", "G", "G">>
ggggtttt == <<"g", "g", "g", "g", "t", "t", "t", "t">>
AAAACCC == <<"A", "A", "A", "A", "C", "C", "C">>
AAAANCCC == <<"A", "A", "A", "A", "N", "C", "C", "C">>
AAAAcCCC == <<"A", "A", "A", "A", "c", "C", "C", "C">>
CAAAAAAA == <<"C", "A", "A", "A", "A", "A", "A", "A">>
ACAAAAAA == <<"A", "C", "A", "A", "A", "A", "A", "A">>
AAAAAAAA == <<"A", "A", "A", "A", "A", "A", "A", "A">>
CAAAAAAAC == <<"C", "A", "A", "A", "A", "A", "A", "A", "C">>

Line(label, leftSpec, rightSpec) == label \o <<TAB>> \o leftSpec \o <<TAB>> \o rightSpec

L_FUS   == Line(<<"F", "U", "S">>, AAAACCCC, GGGGTTTT)
L_NEG   == Line(<<"N", "E", "G">>, <<"-">> \o AAAACCCC, GGGGTTTT)
L_RNEG  == Line(<<"R">>, AAAACCCC, <<"-">> \o GGGGTTTT \o <<"|">> \o TTTTGGGG)
L_MULTI == Line(<<"M">>, AAAACCCC \o <<"|">> \o CCCCAAAAG, ggggtttt \o <<"|">> \o TTTTGGGG)
L_OVER  == Line(<<"O">>, AAAACCCC, CCCCGGGG)

\* the malformed lines, by what is wrong with each
L_2COL    == <<"X">> \o <<TAB>> \o AAAACCCC
L_4COL    == Line(<<"X">>, AAAACCCC, GGGGTTTT) \o <<TAB>> \o GGGGTTTT
L_BLANK   == <<>>
L_NOLABEL == Line(<<>>, AAAACCCC, GGGGTTTT)
L_SHORT   == Line(<<"S">>, AAAACCC, GGGGTTTT)
L_SHORT2  == Line(<<"S">>, AAAACCCC, GGGGTTTT \o <<"|">> \o AAAACCC)
L_BADCHAR == Line(<<"B">>, AAAACCCC, AAAANCCC)
L_DNEG    == Line(<<"D">>, <<"-">> \o AAAACCCC, <<"-">> \o GGGGTTTT)

ValidLines     == {L_FUS, L_NEG, L_RNEG, L_MULTI}
MalformedLines == {L_2COL, L_4COL, L_BLANK, L_NOLABEL, L_SHORT, L_SHORT2, L_BADCHAR, L_DNEG}

\* the sequences of at most n elements of S
RECURSIVE SeqsUpTo(_, _)
SeqsUpTo(S, n) ==
    IF n = 0 THEN {<<>>}
    ELSE LET prev == SeqsUpTo(S, n - 1)
         IN  prev \cup {Append(p, x) : p \in prev, x \in S}

\* the reads made of at most n blocks
RECURSIVE BlockReads(_, _)
BlockReads(blocks, n) ==
    IF n = 0 THEN {<<>>}
    ELSE LET prev == BlockReads(blocks, n - 1)
         IN  prev \cup {p \o b : p \in prev, b \in blocks}

\* the read of the FUS example: NNNAAAACCCCxxxxGGGGTTTTNNN
ExampleRead ==
    <<"N", "N", "N">> \o AAAACCCC \o <<"x", "x", "x", "x">> \o GGGGTTTT \o <<"N", "N", "N">>

PairBlocks == {AAAACCCC, GGGGTTTT, <<"N">>, <<"C", "C", "C", "C">>,
               <<"G", "G", "G", "G">>, AAAAcCCC}
PairReads  == BlockReads(PairBlocks, MaxBlocks) \cup {ExampleRead}
PairLines  == {L_FUS, L_NEG, L_RNEG, L_MULTI, L_OVER}

NegBlocks == {AAAACCCC, GGGGTTTT, <<"N">>, <<"N", "N", "N", "N">>}
NegReads  == BlockReads(NegBlocks, MaxNegBlocks)

RunReads == {ExampleRead, GGGGTTTT \o AAAACCCC}

SearchBlocks == {<<"A">>, <<"C">>, CAAAAAAA, AAAAAAAA}
SearchReads  == BlockReads(SearchBlocks, MaxSearchBlocks)
SearchTargetStrings ==
    {CAAAAAAA,
     AAAAAAAA \o <<"|">> \o CAAAAAAA,
     CAAAAAAA \o <<"|">> \o ACAAAAAA,
     ACAAAAAA \o <<"|">> \o CAAAAAAA,
     CAAAAAAAC \o <<"|">> \o CAAAAAAA,
     CAAAAAAA \o <<"|">> \o CAAAAAAAC,
     <<"-">> \o AAAAAAAA \o <<"|">> \o CAAAAAAAC \o <<"|">> \o ACAAAAAA}

\* what the four uninitialized ints of findMatch(), or a caller's matchStart, may hold
Junk == {-1, 5}

\* the k-th alignment of a BAM file
Alignment(k, bases) == [Name |-> k, QueryBases |-> bases]
NoAlignment == Alignment(0, <<>>)

BamFile(reads) == [k \in 1..Len(reads) |-> Alignment(k, reads[k])]

NoLast == [pair |-> -1, readString |-> <<>>, matched |-> FALSE,
           leftIndex |-> -1, leftStart |-> -1, rightIndex |-> -1, rightStart |-> -1,
           leftCall |-> NoCall, rightCall |-> NoCall]

NoSearch == [fn |-> "idle", pad |-> 0, i |-> 0, matchIndex |-> -1, matchStart |-> 0,
             bound |-> 0, n |-> 0, bad |-> 0]

\* one pass of readTargetPairs()'s while loop on a line std::getline returned:
\* the pairs pushed onto targetPair, and the message of the exception thrown, if any
readTargetLine(line) ==
    With(getDelimitedStrings(line, TAB), LAMBDA column :
        IF Len(column) # 3 THEN [error |-> "unexpected #columns", pairs |-> <<>>]
        ELSE With(TargetPairCtor(column[1], column[2], column[3]), LAMBDA tp :
                 IF tp.error # "" THEN [error |-> tp.error, pairs |-> <<>>]
                 ELSE With(createReverseComplement(tp), LAMBDA rc :
                          IF rc.error # "" THEN [error |-> rc.error, pairs |-> <<tp>>]
                          ELSE [error |-> "", pairs |-> <<tp, rc>>])))

\* targetPair after readTargetPairs() has read the well-formed lines from the k-th on
RECURSIVE CatalogOf(_, _)
CatalogOf(lines, k) ==
    IF k > Len(lines) THEN <<>>
    ELSE readTargetLine(lines[k]).pairs \o CatalogOf(lines, k + 1)

-----------------------------------------------------------------------------
(* main(): readBamFile() and readTargetPairs() *)

\* bamReader.Open(bam_filename), which may fail
OpenBam ==
    /\ pc = "open"
    /\ \E opened \in BOOLEAN : pc' = IF opened THEN "readTargets" ELSE "error"
    /\ UNCHANGED <<maxsub, input, lineno, targetPair, bam, alignment, idx, out, last, target, srch>>

\* a pass of readTargetPairs()'s loop that pushes a pair and its reverse complement
ReadTargetPair ==
    /\ pc = "readTargets"
    /\ lineno < Len(input)
    /\ \E r \in {readTargetLine(input[lineno + 1])} :
           /\ r.error = ""
           /\ targetPair' = targetPair \o r.pairs
    /\ lineno' = lineno + 1
    /\ UNCHANGED <<pc, maxsub, input, bam, alignment, idx, out, last, target, srch>>

\* a pass of readTargetPairs()'s loop that throws; main() catches and returns 1
ReadTargetPairThrows ==
    /\ pc = "readTargets"
    /\ lineno < Len(input)
    /\ \E r \in {readTargetLine(input[lineno + 1])} :
           /\ r.error # ""
           /\ targetPair' = targetPair \o r.pairs
    /\ lineno' = lineno + 1
    /\ pc' = "error"
    /\ UNCHANGED <<maxsub, input, bam, alignment, idx, out, last, target, srch>>

\* std::getline fails: numTargetPairs is set, and "no input targets" thrown if it is 0
EndOfTargets ==
    /\ pc = "readTargets"
    /\ lineno = Len(input)
    /\ pc' = IF Len(targetPair) = 0 THEN "error" ELSE "scan"
    /\ UNCHANGED <<maxsub, input, lineno, targetPair, bam, alignment, idx, out, last, target, srch>>

\* bamReader.GetNextAlignment(alignment) returns true
GetNextAlignment ==
    /\ pc = "scan"
    /\ bam # <<>>
    /\ alignment' = Head(bam)
    /\ bam' = Tail(bam)
    /\ idx' = 0
    /\ pc' = "pairs"
    /\ UNCHANGED <<maxsub, input, lineno, targetPair, out, last, target, srch>>

\* targetPair[i]->findMatch(alignment.Name, alignment.QueryBases) and i++
FindMatch ==
    /\ pc = "pairs"
    /\ idx < Len(targetPair)
    /\ \E junk \in Junk :
       \E c \in {findMatchCondition(targetPair[idx + 1], alignment.QueryBases, junk)} :
       \E threw \in {c.matched /\ writeMatchThrows(targetPair[idx + 1], alignment.QueryBases,
                                                   c.leftIndex, c.leftStart,
                                                   c.rightIndex, c.rightStart)} :
         /\ last' = [pair |-> idx, readString |-> alignment.QueryBases,
                     matched |-> c.matched,
                     leftIndex |-> c.leftIndex, leftStart |-> c.leftStart,
                     rightIndex |-> c.rightIndex, rightStart |-> c.rightStart,
                     leftCall |-> c.leftCall, rightCall |-> c.rightCall]
         /\ out' = IF c.matched /\ ~threw
                   THEN Append(out, writeMatch(targetPair[idx + 1], alignment.Name,
                                               alignment.QueryBases, c.leftIndex,
                                               c.leftStart, c.rightIndex, c.rightStart))
                   ELSE out
         /\ pc' = IF threw THEN "abort"
                  ELSE IF idx + 1 < Len(targetPair) THEN "pairs" ELSE "scan"
    /\ idx' = idx + 1
    /\ UNCHANGED <<maxsub, input, lineno, targetPair, bam, alignment, target, srch>>

\* GetNextAlignment returns false: bamReader.Close(), main() returns 0
Close ==
    /\ pc = "scan"
    /\ bam = <<>>
    /\ pc' = "done"
    /\ UNCHANGED <<maxsub, input, lineno, targetPair, bam, alignment, idx, out, last, target, srch>>

NextScan == GetNextAlignment \/ FindMatch \/ Close

NextRun == OpenBam \/ ReadTargetPair \/ ReadTargetPairThrows \/ EndOfTargets \/ NextScan

\* a whole run, from the call of readBamFile()
InitRun ==
    /\ pc = "open"
    /\ maxsub \in 0..MaxSub
    /\ input \in SeqsUpTo(ValidLines \cup MalformedLines, MaxLines)
    /\ lineno = 0
    /\ targetPair = <<>>
    /\ bam \in {BamFile(rs) : rs \in SeqsUpTo(RunReads, MaxReads)}
    /\ alignment = NoAlignment
    /\ idx = 0
    /\ out = <<>>
    /\ last = NoLast
    /\ target = NoTarget
    /\ srch = NoSearch

SpecRun == InitRun /\ [][NextRun]_vars

\* the scan of one read against the catalog of one well-formed line
InitScan(lines, reads, subs) ==
    /\ pc = "scan"
    /\ maxsub \in subs
    /\ input \in {<<l>> : l \in lines}
    /\ lineno = 1
    /\ targetPair = CatalogOf(input, 1)
    /\ bam \in {BamFile(<<r>>) : r \in reads}
    /\ alignment = NoAlignment
    /\ idx = 0
    /\ out = <<>>
    /\ last = NoLast
    /\ target = NoTarget
    /\ srch = NoSearch

InitPair == InitScan(PairLines, PairReads, 0..MaxSub)

SpecPair == InitPair /\ [][NextScan]_vars

InitNeg == InitScan({L_NEG}, NegReads, {0})

SpecNeg == InitNeg /\ [][NextScan]_vars

-----------------------------------------------------------------------------
(* A directional search run on its own, one candidate per step *)

SearchLocals(fn, pad, i, st) ==
    [fn |-> fn, pad |-> pad, i |-> i, matchIndex |-> st.matchIndex,
     matchStart |-> st.matchStart, bound |-> st.bound, n |-> st.n, bad |-> st.bad]

\* entry of findLeftmost(readseq, readseqlen, rightpad, ...): lines 348-350
CallFindLeftmost ==
    /\ pc = "search"
    /\ srch.fn = "idle"
    /\ \E rightpad \in 0..MaxPad, junk \in Junk :
         srch' = SearchLocals("findLeftmost", rightpad, 0,
                     SearchBegin(Len(alignment.QueryBases) - rightpad, junk))
    /\ UNCHANGED <<pc, maxsub, input, lineno, targetPair, bam, alignment, idx, out, last, target>>

\* one pass of findLeftmost()'s loop over the candidates
LeftmostPass ==
    /\ pc = "search"
    /\ srch.fn = "findLeftmost"
    /\ srch.i < target.seqcount
    /\ srch' = SearchLocals("findLeftmost", srch.pad, srch.i + 1,
                   LeftIter(target, alignment.QueryBases, Len(alignment.QueryBases),
                            srch.i, srch))
    /\ UNCHANGED <<pc, maxsub, input, lineno, targetPair, bam, alignment, idx, out, last, target>>

\* entry of findRightmost(readseq, readseqlen, leftpad, ...): lines 379-381
CallFindRightmost ==
    /\ pc = "search"
    /\ srch.fn = "idle"
    /\ \E leftpad \in 0..MaxPad, junk \in Junk :
         srch' = SearchLocals("findRightmost", leftpad, 0, SearchBegin(leftpad, junk))
    /\ UNCHANGED <<pc, maxsub, input, lineno, targetPair, bam, alignment, idx, out, last, target>>

\* one pass of findRightmost()'s loop over the candidates
RightmostPass ==
    /\ pc = "search"
    /\ srch.fn = "findRightmost"
    /\ srch.i < target.seqcount
    /\ srch' = SearchLocals("findRightmost", srch.pad, srch.i + 1,
                   RightIter(target, alignment.QueryBases, Len(alignment.QueryBases),
                             srch.i, srch))
    /\ UNCHANGED <<pc, maxsub, input, lineno, targetPair, bam, alignment, idx, out, last, target>>

NextSearch == CallFindLeftmost \/ LeftmostPass \/ CallFindRightmost \/ RightmostPass

InitSearch ==
    /\ pc = "search"
    /\ maxsub \in 0..MaxSub
    /\ input = <<>>
    /\ lineno = 0
    /\ targetPair = <<>>
    /\ bam = <<>>
    /\ alignment \in {Alignment(1, r) : r \in SearchReads}
    /\ idx = 0
    /\ out = <<>>
    /\ last = NoLast
    /\ target \in {TargetCtor(ts) : ts \in SearchTargetStrings}
    /\ srch = NoSearch

SpecSearch == InitSearch /\ [][NextSearch]_vars

-----------------------------------------------------------------------------
(* createReverseComplement() applied to a pair, then to its result *)

MirrorCands == {AAAACCCC, ggggtttt, CCCCAAAAG, TTTTGGGG, CAAAAAAAC}

RECURSIVE JoinCands(_, _)
JoinCands(cs, k) ==
    IF k = Len(cs) THEN cs[k] ELSE cs[k] \o <<"|">> \o JoinCands(cs, k + 1)

\* the target strings [-]SEQ(|SEQ)* of at most n candidates
TargetStrings(n) ==
    LET lists == SeqsUpTo(MirrorCands, n) \ {<<>>}
    IN  {JoinCands(cs, 1) : cs \in lists} \cup {<<"-">> \o JoinCands(cs, 1) : cs \in lists}

MirrorLabels == {<<"F", "U", "S">>}

\* targetPair.push_back(tp->createReverseComplement()), or the exception it throws
CreateReverseComplement ==
    /\ pc = "mirror"
    /\ Len(targetPair) <= MaxMirrors
    /\ \E rc \in {createReverseComplement(targetPair[Len(targetPair)])} :
         IF rc.error # ""
         THEN pc' = "error" /\ UNCHANGED targetPair
         ELSE targetPair' = Append(targetPair, rc) /\ UNCHANGED pc
    /\ UNCHANGED <<maxsub, input, lineno, bam, alignment, idx, out, last, target, srch>>

NextMirror == CreateReverseComplement

InitMirror ==
    /\ pc = "mirror"
    /\ maxsub = 0
    /\ input = <<>>
    /\ lineno = 0
    /\ targetPair \in {<<tp>> : tp \in {q \in {TargetPairCtor(lb, l, r) :
                           lb \in MirrorLabels, l \in TargetStrings(MaxCands),
                           r \in TargetStrings(1)} : q.error = ""}}
    /\ bam = <<>>
    /\ alignment = NoAlignment
    /\ idx = 0
    /\ out = <<>>
    /\ last = NoLast
    /\ target = NoTarget
    /\ srch = NoSearch

SpecMirror == InitMirror /\ [][NextMirror]_vars

-----------------------------------------------------------------------------
(* Occurrences, stated without the search loops *)

\* the positions of the window at start where the read differs from the candidate
Mismatches(readseq, tseq, start) ==
    {k \in 1..Len(tseq) : readseq[start + k] # tseq[k]}

\* the candidate occurs at [start, start + length) of the read within maxsub substitutions
Occurs(readseq, tseq, start) ==
    /\ 0 <= start
    /\ start + Len(tseq) <= Len(readseq)
    /\ Cardinality(Mismatches(readseq, tseq, start)) <= maxsub

\* the occurrences <<c, start>> of the candidates of t in the read (c counted from 1)
Occurrences(t, readseq) ==
    {q \in (1..t.seqcount) \X (0..Len(readseq)) : Occurs(readseq, t.seq[q[1]], q[2])}

EndOf(t, q) == q[2] + Len(t.seq[q[1]])

-----------------------------------------------------------------------------
(* Directional searches *)

SearchRead == alignment.QueryBases

LeftmostDone  == pc = "search" /\ srch.fn = "findLeftmost" /\ srch.i = target.seqcount
RightmostDone == pc = "search" /\ srch.fn = "findRightmost" /\ srch.i = target.seqcount

\* the occurrences that end at or before readLength - rightReserve
LeftQualifying ==
    {q \in Occurrences(target, SearchRead) : EndOf(target, q) <= Len(SearchRead) - srch.pad}

\* the occurrences that start at or after leftReserve
RightQualifying ==
    {q \in Occurrences(target, SearchRead) : q[2] >= srch.pad}

SearchResult == <<srch.matchIndex + 1, srch.matchStart>>

\* C8: findLeftmost returns found exactly when some candidate occurs with its
\* exclusive end <= readLength - rightReserve, and then returns the occurrence
\* with the smallest end, the earliest candidate in stored order among equal ends.
C8_LeftmostSmallestEnd ==
    LeftmostDone =>
        /\ (srch.matchIndex >= 0) <=> (LeftQualifying # {})
        /\ srch.matchIndex >= 0 =>
             /\ SearchResult \in LeftQualifying
             /\ \A q \in LeftQualifying :
                  /\ EndOf(target, q) >= EndOf(target, SearchResult)
                  /\ EndOf(target, q) = EndOf(target, SearchResult) => q[1] >= SearchResult[1]

\* a single-candidate set with two non-overlapping occurrences: the left one is returned
C8_Witness ==
    /\ LeftmostDone
    /\ target.seqcount = 1
    /\ srch.matchIndex = 0
    /\ \E q \in LeftQualifying : q[2] >= EndOf(target, SearchResult)

\* C9 as claimed: in findLeftmost a recorded best at start s is replaced only
\* by an occurrence whose exclusive end is <= s.
C9_ReplacementLeftOfStart ==
    [][(/\ srch.fn = "findLeftmost" /\ srch'.fn = "findLeftmost"
        /\ srch.matchIndex >= 0 /\ srch'.matchIndex # srch.matchIndex)
       => srch'.matchStart + target.seqlen[srch'.matchIndex + 1] <= srch.matchStart]_vars

\* C9 amended: in findLeftmost a recorded best is replaced only by an occurrence
\* of a later candidate that ends strictly before the end of the recorded best
\* (exclusive end <= s + length of the recorded best - 1); the two may overlap.
C9_ReplacementEndsEarlier ==
    [][(/\ srch.fn = "findLeftmost" /\ srch'.fn = "findLeftmost"
        /\ srch.matchIndex >= 0 /\ srch'.matchIndex # srch.matchIndex)
       => /\ srch'.matchIndex > srch.matchIndex
          /\ srch'.matchStart + target.seqlen[srch'.matchIndex + 1]
               <= srch.matchStart + target.seqlen[srch.matchIndex + 1] - 1]_vars

\* CAAAAAAA matched at 1 in ACAAAAAAA, then ACAAAAAA replaced it at 0: they overlap
C9_Witness ==
    /\ pc = "search"
    /\ maxsub = 0
    /\ target.seq = <<CAAAAAAA, ACAAAAAA>>
    /\ SearchRead = <<"A">> \o CAAAAAAA \o <<"A">>
    /\ srch.fn = "findLeftmost" /\ srch.pad = 0 /\ srch.i = 2
    /\ srch.matchIndex = 1 /\ srch.matchStart = 0
    /\ Occurs(SearchRead, target.seq[1], 1)

\* C10: findRightmost returns found exactly when some candidate occurs with
\* start >= leftReserve, and then returns the occurrence with the largest start,
\* the earliest candidate in stored order among equal starts.
C10_RightmostLargestStart ==
    RightmostDone =>
        /\ (srch.matchIndex >= 0) <=> (RightQualifying # {})
        /\ srch.matchIndex >= 0 =>
             /\ SearchResult \in RightQualifying
             /\ \A q \in RightQualifying :
                  /\ q[2] <= srch.matchStart
                  /\ q[2] = srch.matchStart => q[1] >= SearchResult[1]

\* two candidates occur at the largest start and the first of them is returned,
\* with another occurrence further left and the reserve cutting none of them
C10_Witness ==
    /\ RightmostDone
    /\ srch.matchIndex = 0
    /\ \E q \in RightQualifying : q[2] = srch.matchStart /\ q[1] > 1
    /\ \E q \in RightQualifying : EndOf(target, q) <= srch.matchStart

-----------------------------------------------------------------------------
(* The pair predicate and the report *)

\* a findMatch() call has returned; LastPair is the entry it was called on
Evaluated == last.pair >= 0
LastPair  == targetPair[last.pair + 1]

\* some left occurrence lies entirely before some right occurrence
OrderedOccurrences(tp, readseq) ==
    \E l \in Occurrences(tp.left, readseq), r \in Occurrences(tp.right, readseq) :
        EndOf(tp.left, l) <= r[2]

\* C1: a pair whose two sides both require presence matches a read exactly when
\* the read holds a left occurrence and a right occurrence, each within maxsub
\* substitutions, the left one ending at or before the start of the right one.
C1_BothWantedMatchIffOrdered ==
    (Evaluated /\ LastPair.left.want /\ LastPair.right.want) =>
        /\ last.matched <=> OrderedOccurrences(LastPair, last.readString)
        /\ last.matched => out # <<>> /\ out[Len(out)].label = LastPair.label

\* a match found with a substitution in the left occurrence, among several candidates
C1_Witness ==
    /\ Evaluated /\ LastPair.left.want /\ LastPair.right.want
    /\ last.matched
    /\ LastPair.left.seqcount > 1
    /\ Mismatches(last.readString, LastPair.left.seq[last.leftIndex + 1], last.leftStart) # {}

LastLine == out[Len(out)].seq

Positions(line, ch) == {k \in 1..Len(line) : line[k] = ch}

StripBrackets(line) == SelectSeq(line, LAMBDA ch : ch # "[" /\ ch # "]")

LeftLen  == LastPair.left.seqlen[last.leftIndex + 1]
RightLen == LastPair.right.seqlen[last.rightIndex + 1]

\* the 1-based positions of the line where the brackets of each span belong
LeftOpen   == last.leftStart + 1
LeftClose  == last.leftStart + LeftLen + 2
RightShift == IF LastPair.left.want THEN 2 ELSE 0
RightOpen  == last.rightStart + RightShift + 1
RightClose == last.rightStart + RightLen + RightShift + 2

\* the 0-based read positions inside a bracketed span
InSpans ==
    (IF LastPair.left.want THEN last.leftStart .. (last.leftStart + LeftLen - 1) ELSE {})
    \cup (IF LastPair.right.want THEN last.rightStart .. (last.rightStart + RightLen - 1) ELSE {})

ExampleLine ==
    <<"N", "N", "N", "[">> \o AAAACCCC \o <<"]", "x", "x", "x", "x", "[">> \o GGGGTTTT
    \o <<"]", "N", "N", "N">>

\* C4: the annotated sequence of a match is the read in its order with one
\* bracketed span per side that requires presence, each span over exactly
\* [matchStart, matchStart + candidateLength), the left span before the right
\* one, every base outside the brackets unchanged and every base inside equal
\* up to letter case; the FUS example yields NNN[AAAACCCC]xxxx[GGGGTTTT]NNN.
C4_AnnotatedLineIsBracketedRead ==
    (Evaluated /\ last.matched) =>
        /\ pc # "abort"
        /\ out # <<>>
        /\ out[Len(out)].name = alignment.Name
        /\ out[Len(out)].label = LastPair.label
        /\ Positions(LastLine, "[") =
             (IF LastPair.left.want THEN {LeftOpen} ELSE {})
             \cup (IF LastPair.right.want THEN {RightOpen} ELSE {})
        /\ Positions(LastLine, "]") =
             (IF LastPair.left.want THEN {LeftClose} ELSE {})
             \cup (IF LastPair.right.want THEN {RightClose} ELSE {})
        /\ (LastPair.left.want /\ LastPair.right.want) => LeftClose < RightOpen
        /\ Len(StripBrackets(LastLine)) = Len(last.readString)
        /\ \A k \in 1..Len(last.readString) :
             /\ ToUpper(StripBrackets(LastLine)[k]) = ToUpper(last.readString[k])
             /\ (k - 1) \notin InSpans => StripBrackets(LastLine)[k] = last.readString[k]
        /\ (maxsub = 0 /\ last.readString = ExampleRead /\ input = <<L_FUS>>)
             => LastLine = ExampleLine

\* the FUS example: NNNAAAACCCCxxxxGGGGTTTTNNN matched with maxsub = 0
C4_Witness ==
    /\ Evaluated /\ last.matched
    /\ maxsub = 0 /\ input = <<L_FUS>> /\ last.readString = ExampleRead
    /\ LastLine = ExampleLine

\* the searches findMatch() called, each with the Target it was called on
LastCalls ==
    (IF last.leftCall.called THEN {<<last.leftCall, LastPair.left>>} ELSE {})
    \cup (IF last.rightCall.called THEN {<<last.rightCall, LastPair.right>>} ELSE {})

\* C7: for every read and every catalog entry findMatch finishes without an
\* error, every comparison of findLeftmost and findRightmost is on a window
\* inside the read, and a search whose window is shorter than the candidate
\* returns not-found.
C7_NoComparisonOutsideRead ==
    /\ pc # "abort"
    /\ Evaluated =>
         \A c \in LastCalls :
            /\ c[1].bad = 0
            /\ c[1].found => c[2].seqlen[c[1].matchIndex + 1] <= Len(last.readString) - c[1].pad
            /\ Len(last.readString) - c[1].pad < c[2].minseqlen => ~c[1].found /\ c[1].n = 0

\* a read shorter than every candidate: the search is called and finds nothing
C7_Witness ==
    /\ Evaluated
    /\ Len(last.readString) < MIN_TARGET_LENGTH
    /\ last.leftCall.called
    /\ ~last.leftCall.found
    /\ ~last.matched

-----------------------------------------------------------------------------
(* The catalog of NEG <tab> -AAAACCCC <tab> GGGGTTTT *)

\* the read has been evaluated against the whole catalog
ReadDone == pc \in {"scan", "done"} /\ Evaluated

NegRead == alignment.QueryBases

AStarts == {a \in 0..Len(NegRead) : Occurs(NegRead, AAAACCCC, a)}
GStarts == {g \in 0..Len(NegRead) : Occurs(NegRead, GGGGTTTT, g)}

RightmostG == CHOOSE g \in GStarts : \A h \in GStarts : h <= g

NegLines == {k \in 1..Len(out) : out[k].label = <<"N", "E", "G">>}

\* C2 as claimed: a read that contains GGGGTTTT with no AAAACCCC before its
\* rightmost occurrence is reported, wherever GGGGTTTT starts.
C2_ReportedWhereverGStarts ==
    (ReadDone /\ GStarts # {} /\ ~(\E a \in AStarts : a < RightmostG))
        => NegLines # {}

\* C2 amended: a read whose rightmost GGGGTTTT starts at offset >= 8 (the
\* length reserved for the absent left side) with no AAAACCCC before it is
\* reported as a match labelled NEG.
C2_ReportedWhenGStartsAfterReserve ==
    (ReadDone /\ GStarts # {} /\ RightmostG >= 8 /\ ~(\E a \in AStarts : a < RightmostG))
        => NegLines # {}

\* GGGGTTTT starts at offset 8 exactly, the read holds no AAAACCCC: reported
C2_Witness ==
    /\ ReadDone
    /\ GStarts = {8} /\ AStarts = {}
    /\ NegLines # {}

\* C3 as claimed: a read that contains both AAAACCCC and GGGGTTTT, in any
\* order, produces no line for NEG.
C3_NoLineWhenBothOccur ==
    (ReadDone /\ AStarts # {} /\ GStarts # {}) => NegLines = {}

\* C3 amended: a read in which an occurrence of AAAACCCC lies before an
\* occurrence of GGGGTTTT produces no line for NEG.
C3_NoLineWhenAOccursBeforeG ==
    (ReadDone /\ \E a \in AStarts, g \in GStarts : a + 8 <= g) => NegLines = {}

\* AAAACCCC directly followed by GGGGTTTT, with room after it: no line
C3_Witness ==
    /\ ReadDone
    /\ \E a \in AStarts : a + 8 \in GStarts /\ a + 24 <= Len(NegRead)
    /\ out = <<>>

-----------------------------------------------------------------------------
(* The target-definition input *)

BadInput == input = <<>> \/ \E k \in 1..Len(input) : input[k] \in MalformedLines

\* C5: when a line of the target-definition input is malformed, wherever it
\* stands, or the input has no lines, the run can only end in the error state:
\* it never reaches the scan, no read is ever evaluated, no match line is ever
\* written, and readTargetPairs() never gets past a malformed line nor to the
\* end of the input with targets in hand.
C5_BadInputEndsInError ==
    BadInput =>
        /\ pc \in {"open", "readTargets", "error"}
        /\ alignment = NoAlignment /\ last = NoLast /\ out = <<>>
        /\ pc = "readTargets" =>
             /\ \A k \in 1..lineno : input[k] \notin MalformedLines
             /\ lineno < Len(input) \/ targetPair = <<>>

\* a malformed line after a well-formed one, with a read waiting in the BAM file
C5_Witness ==
    /\ pc = "error"
    /\ Len(input) = 2 /\ input[1] \in ValidLines /\ input[2] \in MalformedLines
    /\ lineno = 2 /\ Len(targetPair) = 2
    /\ bam # <<>>

-----------------------------------------------------------------------------
(* Mirroring *)

Complement == [ch \in {"A", "C", "G", "T"} |->
                 CASE ch = "A" -> "T" [] ch = "T" -> "A" [] ch = "C" -> "G" [] ch = "G" -> "C"]

\* the reverse complement of a stored candidate
ReverseComplementOf(tseq) == [k \in 1..Len(tseq) |-> Complement[tseq[Len(tseq) + 1 - k]]]

MirrorOf(t, m) ==
    /\ m.error = ""
    /\ m.want = t.want
    /\ m.seqcount = t.seqcount
    /\ m.seq = [i \in 1..t.seqcount |-> ReverseComplementOf(t.seq[i])]

\* C6: createReverseComplement of a valid pair raises no error; its left is the
\* reverse complement of the pair's right and its right that of the pair's
\* left, under the same label; applied twice it reproduces the pair.
C6_MirrorIsInvolution ==
    /\ pc # "error"
    /\ pc = "mirror" =>
         /\ \A k \in 2..Len(targetPair) :
              /\ targetPair[k].error = ""
              /\ targetPair[k].label = targetPair[k - 1].label
              /\ MirrorOf(targetPair[k - 1].right, targetPair[k].left)
              /\ MirrorOf(targetPair[k - 1].left, targetPair[k].right)
         /\ \A k \in 3..Len(targetPair) : targetPair[k] = targetPair[k - 2]

\* a pair with an absent two-candidate left side of unequal lengths, mirrored twice
C6_Witness ==
    /\ pc = "mirror"
    /\ Len(targetPair) >= 3
    /\ ~targetPair[1].left.want
    /\ targetPair[1].left.seqcount = 2
    /\ targetPair[1].left.minseqlen < targetPair[1].left.maxseqlen
    /\ targetPair[3] = targetPair[1]
    /\ targetPair[2] # targetPair[1]

=============================================================================
